---- MODULE Spec2Model ----
(***************************************************************************)
(* KanbanDB (src/index.js): a card store layered on localStorage.          *)
(*                                                                         *)
(* Strings are sequences of tokens: the tag "KanbanDB", the delimiter      *)
(* "--" and the characters of identifiers are one token each, so that      *)
(* String.prototype.indexOf is a real substring search on keys.            *)
(* JavaScript values are records [t, s, n]: t is the typeof tag, s the     *)
(* payload of a string, n the payload of a number.  Objects are functions  *)
(* from property names to values; a property that is not in the domain     *)
(* reads as undefined.                                                     *)
(***************************************************************************)
EXTENDS Integers, Sequences, FiniteSets, TLC

\* ---------------------------------------------------------------- bounds
MaxGuid == 3
MaxClock == 2
MaxPending == 2
MaxOps == 5

\* ------------------------------------------------------------- JS values
Undef == [t |-> "undefined", s |-> <<>>, n |-> 0]
Null == [t |-> "null", s |-> <<>>, n |-> 0]
Str(s) == [t |-> "string", s |-> s, n |-> 0]
Num(n) == [t |-> "number", s |-> <<>>, n |-> n]

\* ToBoolean of a value
Truthy(v) ==
  \/ v.t = "string" /\ Len(v.s) > 0
  \/ v.t = "number" /\ v.n # 0

\* ToString of a value, as a template literal or indexOf argument coerces it
ToStr(v) ==
  CASE v.t = "string" -> v.s
    [] v.t = "null" -> <<"null">>
    [] v.t = "undefined" -> <<"undefined">>
    [] OTHER -> <<"number">>

EmptyObj == [f \in {} |-> Undef]

\* property read o.f
Get(o, f) == IF f \in DOMAIN o THEN o[f] ELSE Undef

\* object spread {...a, ...b}
Spread(a, b) ==
  [f \in (DOMAIN a) \cup (DOMAIN b) |-> IF f \in DOMAIN b THEN b[f] ELSE a[f]]

\* JSON.stringify of an object: properties whose value is undefined are
\* dropped from the text
JSONstringify(o) ==
  [isNull |-> FALSE, obj |-> [f \in {g \in DOMAIN o : o[g].t # "undefined"} |-> o[f]]]

\* the null that localStorage.getItem returns for a missing key
NullItem == [isNull |-> TRUE, obj |-> EmptyObj]

\* JSON.parse of a stored text; JSON.parse(null) is null
JSONparse(text) == text

\* the spread of the stored record left out of the merge
SpreadParsed_Dropped(parsed) == EmptyObj

\* {...JSON.parse(card)}: spreading null yields no properties
SpreadParsed(parsed) == IF parsed.isNull THEN EmptyObj ELSE parsed.obj

\* strKey.indexOf(pat) > -1
IndexOfFound(strKey, pat) ==
  \E i \in 0..(Len(strKey) - Len(pat)) : SubSeq(strKey, i + 1, i + Len(pat)) = pat

\* strKey starts with pat (the anchored test of spec 4.2)
StartsWith(strKey, pat) ==
  /\ Len(pat) <= Len(strKey)
  /\ SubSeq(strKey, 1, Len(pat)) = pat

CARD_STATUS == {<<"TODO">>, <<"IN_PROGRESS">>, <<"DONE">>}

\* Object.keys(CARD_STATUS).indexOf(v) !== -1
IsStatusKey(v) == v.t = "string" /\ v.s \in CARD_STATUS

\* the n-th identifier uuidv4 hands out
Guid(n) == <<"g", ToString(n)>>

\* ------------------------------------------------------------- validator
isCardValid(card) ==
  LET name == Get(card, "name")
      description == Get(card, "description")
      status == Get(card, "status")
      \* the ternary's condition is the whole && chain in front of the "?"
      cond == /\ Truthy(name)
              /\ name.t = "string"
              /\ Len(name.s) > 0
              /\ Truthy(description)
  IN IF cond
       THEN description.t = "string" /\ Len(description.s) > 0
       ELSE (IF Truthy(status) THEN IsStatusKey(status) ELSE TRUE)

\* ------------------------------------------------------------------ state
VARIABLES
  ready,          \* let ready
  dbInstanceId,   \* let dbInstanceId
  dataItemPrefix, \* let dataItemPrefix
  localStorage,   \* window.localStorage: key -> stored text
  timers,         \* callbacks handed to setTimeout(..., 100), in firing order
  now,            \* the clock Date.now() reads
  nextGuid,       \* index of the next identifier uuidv4 returns
  opCount,        \* number of public calls made so far
  deleted,        \* keys whose deleteCardById has resolved true
  session,        \* what disconnect() left behind, and whether it was resumed
  last            \* the latest call or callback and how its promise was settled

vars == <<ready, dbInstanceId, dataItemPrefix, localStorage, timers, now,
          nextGuid, opCount, deleted, session, last>>

\* ----------------------------------------------------------------- inputs
Name1 == Str(<<"n">>)
Desc1 == Str(<<"d">>)
Empty == Str(<<>>)
Todo == Str(<<"TODO">>)
Done == Str(<<"DONE">>)
Bogus == Str(<<"BOGUS">>)

\* cardData arguments of addCard
AddInputs ==
  { [name |-> Name1],
    [name |-> Name1, description |-> Desc1, status |-> Todo],
    [name |-> Empty],
    [status |-> Bogus] }

\* cardData arguments of updateCardById
Patches ==
  { [status |-> Done],
    [name |-> Empty],
    [status |-> Bogus],
    [id |-> Str(<<"x">>), created |-> Num(MaxClock + 1)] }

\* arrStatusCodes arguments of getCardsByStatusCodes
CodeLists == { <<Todo>>, <<Todo, Done>>, <<Bogus>> }

\* previousInstanceId arguments of connect; null asks for a fresh database
InstA == <<"a">>
InstB == <<"b", "--", "KanbanDB", "--", "a">>
ConnectArgs == { Null, Str(InstA), Str(InstB) }

\* identifiers handed out so far: the strId arguments callers know
KnownIds == { Guid(i) : i \in 1..(nextGuid - 1) }

\* ---------------------------------------------------------------- helpers
createGUID == Guid(nextGuid)

\* `${dataItemPrefix}--${strDbKey}`
addPrefix(strDbKey) == ToStr(dataItemPrefix) \o <<"--">> \o strDbKey

\* localStorage.getItem(key)
getItem(key) == IF key \in DOMAIN localStorage THEN localStorage[key] ELSE NullItem

\* localStorage.setItem(key, text)
setItem(store, key, text) ==
  [k \in (DOMAIN store) \cup {key} |-> IF k = key THEN text ELSE store[k]]

\* removeItem taking every key of the card's namespace with it
removeItem_Namespace(store, key) ==
  [k \in { j \in DOMAIN store :
             SubSeq(j, 1, Len(j) - 2) # SubSeq(key, 1, Len(key) - 2) } |-> store[k]]

\* localStorage.removeItem(key)
removeItem(store, key) == [k \in (DOMAIN store) \ {key} |-> store[k]]

\* localStorage.clear()
EmptyStore == [k \in {} |-> NullItem]

\* what an earlier page load may have left in localStorage: nothing, or a
\* card stored while connected as InstB
PersistedStore ==
  [k \in {<<"KanbanDB", "--">> \o InstB \o <<"--", "p">>} |->
     JSONstringify([id |-> Str(<<"p">>), name |-> Name1, description |-> Undef,
                    status |-> Todo, created |-> Num(1), lastUpdated |-> Num(1)])]

InitStores == {EmptyStore, PersistedStore}

\* the records of the current namespace, as disconnect() leaves them
Snapshot ==
  [k \in { key \in DOMAIN localStorage : StartsWith(key, ToStr(dataItemPrefix)) }
     |-> localStorage[k].obj]

\* the store was written since the last disconnect()
Mutated == [session EXCEPT !.intact = FALSE, !.resumed = FALSE]

\* Date.now(): the clock never runs backwards, and may have advanced
Clock == { t \in now..(now + 1) : t <= MaxClock }

NoArg == EmptyObj

\* no concurrent update has resolved
NoEarlier == [key |-> <<>>, patch |-> NoArg, read |-> NullItem]

Event(op, strId, arg, outcome, error, value) ==
  [op |-> op, strId |-> strId, arg |-> arg, outcome |-> outcome,
   error |-> error, value |-> value, before |-> localStorage,
   prefix |-> ToStr(dataItemPrefix), afterDelete |-> FALSE,
   earlier |-> NoEarlier]

\* a callback handed to setTimeout; prefix is the dataItemPrefix in force at
\* the call, earlier the concurrent update that resolved while it was pending
Timer(op, strId, arg, outer) ==
  [op |-> op, strId |-> strId, arg |-> arg, outer |-> outer, afterDelete |-> FALSE,
   prefix |-> ToStr(dataItemPrefix), earlier |-> NoEarlier]

\* mark the pending updates of strId with the update that has just resolved
Annotate(queue, strId, e) ==
  [i \in 1..Len(queue) |->
     IF queue[i].op = "updateCardById" /\ queue[i].strId = strId
       THEN [queue[i] EXCEPT !.earlier = e] ELSE queue[i]]

\* forget the marks about a key that was removed or written anew
Forget(queue, key) ==
  [i \in 1..Len(queue) |->
     IF queue[i].earlier.key = key
       THEN [queue[i] EXCEPT !.earlier = NoEarlier] ELSE queue[i]]

PendingAdds == Cardinality({i \in 1..Len(timers) : timers[i].op = "addCard"})

CanCall == opCount < MaxOps /\ Len(timers) < MaxPending

\* setTimeout(callback, 100)
Schedule(t) ==
  /\ timers' = Append(timers, t)
  /\ last' = Event(t.op, t.strId, t.arg, "pending", "none", FALSE)
  /\ UNCHANGED <<ready, dbInstanceId, dataItemPrefix, localStorage,
                 now, nextGuid, deleted, session>>

\* verifyDbReady() without its throw: the call goes on to setTimeout
Throw_Falls_Through(op, strId, arg) ==
  /\ timers' = Append(timers, Timer(op, strId, arg, "none"))
  /\ last' = Event(op, strId, arg, "pending", "none", FALSE)
  /\ UNCHANGED <<ready, dbInstanceId, dataItemPrefix, localStorage,
                 now, nextGuid, deleted, session>>

\* verifyDbReady() throws: the call returns no promise and schedules nothing
Throw(op, strId, arg) ==
  /\ last' = Event(op, strId, arg, "thrown", "NotReady", FALSE)
  /\ UNCHANGED <<ready, dbInstanceId, dataItemPrefix, localStorage, timers,
                 now, nextGuid, deleted, session>>

Init ==
  /\ ready = FALSE
  /\ dbInstanceId = Undef
  /\ dataItemPrefix = Undef
  /\ localStorage \in InitStores
  /\ timers = <<>>
  /\ now = 1
  /\ nextGuid = 1
  /\ opCount = 0
  /\ deleted = {}
  /\ session = [id |-> Undef, ns |-> EmptyStore, intact |-> FALSE, resumed |-> FALSE]
  /\ last = [op |-> "none", strId |-> <<>>, arg |-> NoArg, outcome |-> "none",
             error |-> "none", value |-> FALSE, before |-> localStorage,
             prefix |-> <<>>, afterDelete |-> FALSE, earlier |-> NoEarlier]

\* ---------------------------------------------------- connection lifecycle
\* connect without the localStorage.clear() of line 255
connect_No_Clear(previousInstanceId) ==
  /\ opCount < MaxOps
  /\ Truthy(previousInstanceId) \/ nextGuid + PendingAdds <= MaxGuid
  /\ opCount' = opCount + 1
  /\ ready' = TRUE
  /\ dbInstanceId' = IF Truthy(previousInstanceId)
                       THEN previousInstanceId ELSE Str(createGUID)
  /\ nextGuid' = IF Truthy(previousInstanceId) THEN nextGuid ELSE nextGuid + 1
  /\ localStorage' = localStorage
  /\ dataItemPrefix' = Str(<<"KanbanDB", "--">> \o ToStr(dbInstanceId'))
  /\ last' = Event("connect", <<>>, [previousInstanceId |-> previousInstanceId],
                   "resolved", "none", TRUE)
  /\ session' = [session EXCEPT
                    !.resumed = /\ Truthy(previousInstanceId)
                                /\ previousInstanceId = session.id
                                /\ session.intact,
                    !.intact = IF localStorage' = localStorage THEN @ ELSE FALSE]
  /\ UNCHANGED <<timers, now, deleted>>

connect(previousInstanceId) ==
  /\ opCount < MaxOps
  /\ Truthy(previousInstanceId) \/ nextGuid + PendingAdds <= MaxGuid
  /\ opCount' = opCount + 1
  /\ ready' = TRUE
  /\ dbInstanceId' = IF Truthy(previousInstanceId)
                       THEN previousInstanceId ELSE Str(createGUID)
  /\ nextGuid' = IF Truthy(previousInstanceId) THEN nextGuid ELSE nextGuid + 1
  /\ localStorage' = IF ~Truthy(previousInstanceId) THEN EmptyStore ELSE localStorage
  /\ dataItemPrefix' = Str(<<"KanbanDB", "--">> \o ToStr(dbInstanceId'))
  /\ last' = Event("connect", <<>>, [previousInstanceId |-> previousInstanceId],
                   "resolved", "none", TRUE)
  /\ session' = [session EXCEPT
                    !.resumed = /\ Truthy(previousInstanceId)
                                /\ previousInstanceId = session.id
                                /\ session.intact,
                    !.intact = IF localStorage' = localStorage THEN @ ELSE FALSE]
  /\ UNCHANGED <<timers, now, deleted>>

disconnect ==
  /\ opCount < MaxOps
  /\ opCount' = opCount + 1
  /\ ready' = FALSE
  /\ dbInstanceId' = Null
  /\ dataItemPrefix' = Null
  /\ last' = Event("disconnect", <<>>, NoArg, "resolved", "none", TRUE)
  /\ session' = [id |-> dbInstanceId, ns |-> Snapshot,
                  intact |-> TRUE, resumed |-> FALSE]
  /\ UNCHANGED <<localStorage, timers, now, nextGuid, deleted>>

\* ------------------------------------------------------------ public calls
\* each call runs verifyDbReady() and, when ready, hands its body to setTimeout
addCard(cardData) ==
  /\ CanCall
  /\ nextGuid + PendingAdds <= MaxGuid
  /\ opCount' = opCount + 1
  /\ IF ready
       THEN Schedule(Timer("addCard", <<>>, cardData, "pending"))
       ELSE Throw("addCard", <<>>, cardData)

getCardById(strId) ==
  /\ CanCall
  /\ opCount' = opCount + 1
  /\ IF ready
       THEN Schedule([Timer("getCardById", strId, NoArg, "pending")
                        EXCEPT !.afterDelete = addPrefix(strId) \in deleted])
       ELSE Throw("getCardById", strId, NoArg)

updateCardById(strId, cardData) ==
  /\ CanCall
  /\ opCount' = opCount + 1
  /\ IF ready
       THEN Schedule(Timer("updateCardById", strId, cardData, "pending"))
       ELSE Throw("updateCardById", strId, cardData)

deleteCardById(strId) ==
  /\ CanCall
  /\ opCount' = opCount + 1
  /\ IF ready
       THEN Schedule(Timer("deleteCardById", strId, NoArg, "pending"))
       ELSE Throw("deleteCardById", strId, NoArg)

getCards ==
  /\ CanCall
  /\ opCount' = opCount + 1
  /\ IF ready
       THEN Schedule(Timer("getCards", <<>>, NoArg, "none"))
       ELSE Throw("getCards", <<>>, NoArg)

\* the promise executor validates the codes, rejects on a bad one and goes on
\* to setTimeout all the same
getCardsByStatusCodes(arrStatusCodes) ==
  LET bad == \E i \in 1..Len(arrStatusCodes) : ~IsStatusKey(arrStatusCodes[i])
  IN /\ CanCall
     /\ opCount' = opCount + 1
     /\ IF ready
          THEN /\ timers' = Append(timers,
                    Timer("getCardsByStatusCodes", <<>>, arrStatusCodes,
                          IF bad THEN "rejected" ELSE "pending"))
               /\ last' = IF bad
                    THEN Event("getCardsByStatusCodes", <<>>, arrStatusCodes,
                               "rejected", "InvalidStatus", FALSE)
                    ELSE Event("getCardsByStatusCodes", <<>>, arrStatusCodes,
                               "pending", "none", FALSE)
               /\ UNCHANGED <<ready, dbInstanceId, dataItemPrefix, localStorage,
                              now, nextGuid, deleted, session>>
          ELSE Throw("getCardsByStatusCodes", <<>>, arrStatusCodes)

\* -------------------------------------------------------- timer callbacks
Fires(op) == Len(timers) > 0 /\ Head(timers).op = op

ClockFrom(t0) == { t \in t0..(t0 + 1) : t <= MaxClock }

addCardTimeout ==
  /\ Fires("addCard")
  /\ LET cardData == Head(timers).arg
     IN \E t1 \in Clock : \E t2 \in ClockFrom(t1) :
        LET card == [id |-> Str(createGUID),
                     name |-> Get(cardData, "name"),
                     description |-> Get(cardData, "description"),
                     status |-> Get(cardData, "status"),
                     created |-> Num(t1),
                     lastUpdated |-> Num(t2)]
            cardKey == addPrefix(createGUID)
        IN \* reject() does not leave the callback: the write always happens
           /\ localStorage' = setItem(localStorage, cardKey, JSONstringify(card))
           /\ last' = IF isCardValid(card)
                        THEN Event("addCard", createGUID, cardData,
                                   "resolved", "none", createGUID)
                        ELSE Event("addCard", createGUID, cardData,
                                   "rejected", "InvalidCard", FALSE)
           /\ now' = t2
  /\ nextGuid' = nextGuid + 1
  /\ timers' = Tail(timers)
  /\ session' = IF localStorage' = localStorage THEN session ELSE Mutated
  /\ UNCHANGED <<ready, dbInstanceId, dataItemPrefix, opCount, deleted>>

\* how the promise of getCardById(strId) is settled by its callback
getCardByIdSettle(strId) ==
  LET card == getItem(addPrefix(strId))
  IN IF card.isNull
       THEN Event("getCardById", strId, NoArg, "rejected", "NotFound", FALSE)
       ELSE Event("getCardById", strId, NoArg, "resolved", "none",
                  JSONparse(card).obj)

getCardByIdTimeout ==
  /\ Fires("getCardById")
  /\ last' = [getCardByIdSettle(Head(timers).strId)
                EXCEPT !.afterDelete = Head(timers).afterDelete]
  /\ timers' = Tail(timers)
  /\ UNCHANGED <<ready, dbInstanceId, dataItemPrefix, localStorage, now,
                 nextGuid, opCount, deleted, session>>

updateCardByIdTimeout ==
  /\ Fires("updateCardById")
  /\ LET strId == Head(timers).strId
         cardData == Head(timers).arg
         card == getItem(addPrefix(strId))
         mark == [key |-> addPrefix(strId), patch |-> cardData, read |-> card]
         ev(outcome, error, value) ==
           [Event("updateCardById", strId, cardData, outcome, error, value)
              EXCEPT !.earlier = Head(timers).earlier]
     IN \E t \in Clock :
        LET newCard == Spread(Spread(SpreadParsed(JSONparse(card)), cardData),
                              [lastUpdated |-> Num(t)])
        IN /\ now' = t
           /\ IF isCardValid(newCard)
                THEN /\ localStorage' = setItem(localStorage, addPrefix(strId),
                                                JSONstringify(newCard))
                     /\ last' = IF card.isNull
                          THEN ev("rejected", "NotFound", FALSE)
                          ELSE ev("resolved", "none", TRUE)
                     /\ timers' = IF card.isNull
                          THEN Forget(Tail(timers), addPrefix(strId))
                          ELSE Annotate(Tail(timers), strId, mark)
                ELSE /\ localStorage' = localStorage
                     /\ last' = IF card.isNull
                          THEN ev("rejected", "NotFound", FALSE)
                          ELSE ev("rejected", "InvalidCard", FALSE)
                     /\ timers' = Tail(timers)
  /\ session' = IF localStorage' = localStorage THEN session ELSE Mutated
  /\ UNCHANGED <<ready, dbInstanceId, dataItemPrefix, nextGuid, opCount, deleted>>

deleteCardByIdTimeout ==
  /\ Fires("deleteCardById")
  /\ LET strId == Head(timers).strId
         card == getItem(addPrefix(strId))
     IN /\ localStorage' = removeItem(localStorage, addPrefix(strId))
        /\ last' = IF card.isNull
                     THEN Event("deleteCardById", strId, NoArg,
                                "rejected", "NotFound", FALSE)
                     ELSE Event("deleteCardById", strId, NoArg,
                                "resolved", "none", TRUE)
        /\ deleted' = IF card.isNull THEN deleted
                      ELSE deleted \cup {addPrefix(strId)}
  /\ timers' = Forget(Tail(timers), addPrefix(Head(timers).strId))
  /\ session' = IF localStorage' = localStorage THEN session ELSE Mutated
  /\ UNCHANGED <<ready, dbInstanceId, dataItemPrefix, now, nextGuid, opCount>>

\* the keys getCards keeps: strKey.indexOf(dataItemPrefix) > -1
Filtered == { strKey \in DOMAIN localStorage :
                IndexOfFound(strKey, ToStr(dataItemPrefix)) }

\* the array getCards resolves with, as the parsed item of every kept key
Results == [key \in Filtered |-> JSONparse(getItem(key)).obj]

\* how the promise of getCards() is settled by its callback
getCardsSettle ==
  IF Cardinality(DOMAIN localStorage) < 1
    THEN Event("getCards", <<>>, NoArg, "rejected", "NoData", FALSE)
    ELSE Event("getCards", <<>>, NoArg, "resolved", "none", Results)

getCardsTimeout ==
  /\ Fires("getCards")
  /\ Head(timers).outer = "none"
  /\ last' = getCardsSettle
  /\ timers' = Tail(timers)
  /\ UNCHANGED <<ready, dbInstanceId, dataItemPrefix, localStorage, now,
                 nextGuid, opCount, deleted, session>>

\* the callback of getCardsByStatusCodes calls this.getCards(), which throws
\* out of the callback when the instance is no longer ready
getCardsByStatusCodesTimeout ==
  /\ Fires("getCardsByStatusCodes")
  /\ LET arrStatusCodes == Head(timers).arg
         outer == Head(timers).outer
     IN IF ready
          THEN /\ timers' = Append(Tail(timers),
                                   [Timer("getCards", <<>>, arrStatusCodes, outer)
                                      EXCEPT !.prefix = Head(timers).prefix])
               /\ last' = Event("getCardsByStatusCodes", <<>>, arrStatusCodes,
                                IF outer = "rejected" THEN "rejected" ELSE "pending",
                                IF outer = "rejected" THEN "InvalidStatus" ELSE "none",
                                FALSE)
          ELSE /\ timers' = Tail(timers)
               /\ last' = Event("getCardsByStatusCodes", <<>>, arrStatusCodes,
                                IF outer = "rejected" THEN "rejected" ELSE "orphaned",
                                IF outer = "rejected" THEN "InvalidStatus" ELSE "NotReady",
                                FALSE)
  /\ UNCHANGED <<ready, dbInstanceId, dataItemPrefix, localStorage, now,
                 nextGuid, opCount, deleted, session>>

\* the inner getCards callback followed by the .then() of getCardsByStatusCodes;
\* a rejected inner promise has no handler, so the outer one is never settled
getCardsByStatusCodesThen ==
  /\ Fires("getCards")
  /\ Head(timers).outer # "none"
  /\ LET arrStatusCodes == Head(timers).arg
         outer == Head(timers).outer
         codes == { arrStatusCodes[i] : i \in 1..Len(arrStatusCodes) }
         arrCards == Results
         results == [key \in { k \in DOMAIN arrCards :
                                 Get(arrCards[k], "status") \in codes }
                       |-> arrCards[key]]
     IN last' =
          IF outer = "rejected"
            THEN Event("getCardsByStatusCodes", <<>>, arrStatusCodes,
                       "rejected", "InvalidStatus", FALSE)
            ELSE IF Cardinality(DOMAIN localStorage) < 1
              THEN Event("getCardsByStatusCodes", <<>>, arrStatusCodes,
                         "orphaned", "NoData", FALSE)
              ELSE Event("getCardsByStatusCodes", <<>>, arrStatusCodes,
                         "resolved", "none", results)
  /\ timers' = Tail(timers)
  /\ UNCHANGED <<ready, dbInstanceId, dataItemPrefix, localStorage, now,
                 nextGuid, opCount, deleted, session>>

\* ------------------------------------------------------------ specification
Next ==
  \/ \E previousInstanceId \in ConnectArgs : connect(previousInstanceId)
  \/ disconnect
  \/ \E cardData \in AddInputs : addCard(cardData)
  \/ \E strId \in KnownIds : getCardById(strId)
  \/ \E strId \in KnownIds : \E cardData \in Patches : updateCardById(strId, cardData)
  \/ \E strId \in KnownIds : deleteCardById(strId)
  \/ getCards
  \/ \E arrStatusCodes \in CodeLists : getCardsByStatusCodes(arrStatusCodes)
  \/ addCardTimeout
  \/ getCardByIdTimeout
  \/ updateCardByIdTimeout
  \/ deleteCardByIdTimeout
  \/ getCardsTimeout
  \/ getCardsByStatusCodesTimeout
  \/ getCardsByStatusCodesThen

Spec == Init /\ [][Next]_vars

TypeOK ==
  /\ ready \in BOOLEAN
  /\ now \in 1..MaxClock
  /\ nextGuid \in 1..(MaxGuid + 1)
  /\ opCount \in 0..MaxOps
  /\ Len(timers) <= MaxPending

\* ------------------------------------------------------------------ claims
\* the key the latest event addressed
LastKey == last.prefix \o <<"--">> \o last.strId

\* the latest event is a callback that settled (or tried to settle) a promise
Settled == last.outcome \in {"resolved", "rejected"}

\* the validator rule of spec 4.3
ValidatorRule(card) ==
  LET name == Get(card, "name")
      description == Get(card, "description")
      status == Get(card, "status")
      validName == name.t = "string" /\ Len(name.s) > 0
      noDescription == description.t = "undefined"
      validDescription == description.t = "string" /\ Len(description.s) > 0
      noStatus == status.t = "undefined"
      validStatus == IsStatusKey(status)
  IN validName /\ (noDescription \/ validDescription) /\ (noStatus \/ validStatus)

\* the keys of a store that start with the prefix in force at the latest event
Namespace(store) == { k \in DOMAIN store : StartsWith(k, last.prefix) }

\* C1: whenever addCard fails with InvalidCard, the store after the callback
\* is identical to the store before it (no write).
C1_AddCardInvalidNoWrite ==
  (last.op = "addCard" /\ last.error = "InvalidCard")
    => localStorage = last.before

\* C2: updateCardById for an id with no record fails with NotFound and leaves
\* the store unchanged: no record exists under that key afterwards.
C2_UpdateMissingNoWrite ==
  (last.op = "updateCardById" /\ Settled /\ LastKey \notin DOMAIN last.before)
    => /\ last.error = "NotFound"
       /\ localStorage = last.before
       /\ LastKey \notin DOMAIN localStorage

\* C3: the validator accepts a card exactly when the rule of spec 4.3 holds
\* of it, so addCard fails with InvalidCard exactly on the cards the rule rejects.
C3_ValidatorIsConjunction ==
  (last.op = "addCard" /\ Settled)
    => /\ isCardValid(last.arg) = ValidatorRule(last.arg)
       /\ (last.error = "InvalidCard") = ~ValidatorRule(last.arg)

\* C4: after a successful updateCardById the stored record has the id and the
\* created value it had before, and lastUpdated has not decreased.
C4_UpdatePreservesIdCreated ==
  (last.op = "updateCardById" /\ last.outcome = "resolved")
    => LET old == last.before[LastKey].obj
           new == localStorage[LastKey].obj
       IN /\ Get(new, "id") = Get(old, "id")
          /\ Get(new, "created") = Get(old, "created")
          /\ Get(new, "lastUpdated").n >= Get(old, "lastUpdated").n

\* C5: updateCardById on an existing card fails with InvalidCard and leaves the
\* store as it was when the merged record breaks the validator rule; when the
\* merged record satisfies the rule it is persisted and the call resolves true.
C5_UpdateValidatesMerge ==
  (last.op = "updateCardById" /\ Settled /\ LastKey \in DOMAIN last.before)
    => LET old == last.before[LastKey].obj
           merged == Spread(old, last.arg)
       IN IF ValidatorRule(merged)
            THEN /\ last.outcome = "resolved"
                 /\ LastKey \in DOMAIN localStorage
                 /\ \A f \in DOMAIN merged \ {"lastUpdated"} :
                      Get(localStorage[LastKey].obj, f) = merged[f]
            ELSE /\ last.error = "InvalidCard"
                 /\ localStorage = last.before

\* C6: right after addCard(input) resolved with id for a valid input, a
\* getCardById(id) resolves with a record that has this id, the input's name,
\* description and status, and created equal to lastUpdated.
C6_AddThenGet ==
  (last.op = "addCard" /\ last.outcome = "resolved" /\ ValidatorRule(last.arg))
    => LET got == getCardByIdSettle(last.value)
       IN /\ got.outcome = "resolved"
          /\ Get(got.value, "id") = Str(last.value)
          /\ Get(got.value, "name") = Get(last.arg, "name")
          /\ Get(got.value, "description") = Get(last.arg, "description")
          /\ Get(got.value, "status") = Get(last.arg, "status")
          /\ Get(got.value, "created") = Get(got.value, "lastUpdated")

\* C7: a getCardById(id) issued after deleteCardById(id) resolved fails with
\* NotFound.
C7_GetAfterDeleteNotFound ==
  (last.op = "getCardById" /\ Settled /\ last.afterDelete)
    => last.error = "NotFound"

\* C8: getCards() on a connected instance whose namespace holds no records
\* resolves with an empty list, whether the store is empty or holds only keys
\* of other namespaces.
C8_GetCardsEmptyNamespace ==
  (/\ last.op = "getCards"
   /\ Settled
   /\ last.prefix # <<"null">>
   /\ Namespace(last.before) = {})
    => /\ last.outcome = "resolved"
       /\ DOMAIN last.value = {}

\* C9: getCards() resolves with the records of exactly the keys that start
\* with keyPrefix: every card of the current instance and no card stored under
\* another instance id.
C9_GetCardsAnchoredPrefix ==
  (last.op = "getCards" /\ last.outcome = "resolved")
    => /\ DOMAIN last.value = Namespace(last.before)
       /\ \A k \in DOMAIN last.value : last.value[k] = last.before[k].obj

\* C10: for valid status codes and every store content,
\* getCardsByStatusCodes(codes) resolves with exactly the records of the
\* current namespace whose status is a member of codes.
C10_StatusFilterExact ==
  (/\ last.op = "getCardsByStatusCodes"
   /\ last.outcome \in {"resolved", "orphaned"}
   /\ last.error # "NotReady"
   /\ \A i \in 1..Len(last.arg) : IsStatusKey(last.arg[i]))
    => /\ last.outcome = "resolved"
       /\ DOMAIN last.value =
            { k \in Namespace(last.before) :
                Get(last.before[k].obj, "status")
                  \in { last.arg[i] : i \in 1..Len(last.arg) } }

\* C11: once getCardsByStatusCodes has failed with InvalidStatus it does no
\* lookup: no getCards call (and so no read of the store) is made for it.
C11_InvalidStatusNoLookup ==
  \A i \in 1..Len(timers) :
    ~(timers[i].op = "getCards" /\ timers[i].outer = "rejected")

RecordOps == {"addCard", "getCardById", "updateCardById", "deleteCardById",
              "getCards", "getCardsByStatusCodes"}

\* C12: a record operation called while the instance is not ready throws
\* NotReady at once, schedules no callback and leaves the store unchanged.
C12_NotReadyThrows ==
  [][(~ready /\ opCount' = opCount + 1 /\ last'.op \in RecordOps)
       => /\ last'.outcome = "thrown"
          /\ last'.error = "NotReady"
          /\ timers' = timers
          /\ localStorage' = localStorage]_vars

\* a record operation was called after disconnect() and threw
C12_Witness ==
  /\ last.op \in RecordOps
  /\ last.outcome = "thrown"
  /\ dataItemPrefix = Null
  /\ DOMAIN localStorage # {}

\* C13: connect() without a previous instance id sets ready, takes a fresh
\* instance id, and leaves the store with no key at all.
C13_ConnectFreshWipes ==
  (last.op = "connect" /\ ~Truthy(last.arg.previousInstanceId))
    => /\ ready
       /\ dbInstanceId.t = "string"
       /\ dataItemPrefix = Str(<<"KanbanDB", "--">> \o dbInstanceId.s)
       /\ \A k \in DOMAIN last.before : ~IndexOfFound(k, dbInstanceId.s)
       /\ DOMAIN localStorage = {}

\* connect() ran on a store that held keys of two namespaces
C13_Witness ==
  /\ last.op = "connect"
  /\ ~Truthy(last.arg.previousInstanceId)
  /\ \E k1, k2 \in DOMAIN last.before :
       /\ StartsWith(k1, <<"KanbanDB", "--", "a", "--">>)
       /\ StartsWith(k2, <<"KanbanDB", "--", "b", "--">>)

\* C14: connect(previousInstanceId) leaves the whole store unchanged and takes
\* that id as instance id, so a getCards() after add operations, disconnect()
\* and connect(sameId) resolves with exactly the records the namespace held at
\* the disconnect.
C14_ReconnectPreserves ==
  (last.op = "connect" /\ Truthy(last.arg.previousInstanceId))
    => /\ localStorage = last.before
       /\ dbInstanceId = last.arg.previousInstanceId
       /\ (session.resumed /\ DOMAIN session.ns # {})
            => /\ getCardsSettle.outcome = "resolved"
               /\ getCardsSettle.value = session.ns

\* C15: every accepted record operation is settled in the end: when the last
\* callback scheduled for it has run, its promise is resolved or rejected.
C15_AcceptedSettles ==
  (last.op \in RecordOps /\ last.outcome \notin {"pending", "thrown"})
    => Settled

\* an updateCardById has resolved that was pending while an earlier
\* updateCardById of the same record resolved
TwoUpdates ==
  /\ last.op = "updateCardById"
  /\ last.outcome = "resolved"
  /\ last.earlier.key = LastKey

\* C16 as stated: of two updateCardById calls on one record, both issued
\* before either resolved, the later also merges over the pre-update record
\* (the one the earlier read), so that what the earlier wrote is lost. The
\* timers fire in call order, so the two calls have this one execution.
C16_LostUpdate ==
  TwoUpdates
    => \A f \in DOMAIN localStorage[LastKey].obj \ {"lastUpdated"} :
         localStorage[LastKey].obj[f]
           = Get(Spread(last.earlier.read.obj, last.arg), f)

\* C16 as amended: the later of two concurrent updateCardById calls reads the
\* record the earlier one wrote, and after both have resolved the record
\* holds every value the earlier wrote that the later patch does not set.
C16_NoLostUpdate ==
  TwoUpdates
    => /\ \A f \in DOMAIN last.earlier.patch \ {"lastUpdated"} :
            Get(last.before[LastKey].obj, f) = last.earlier.patch[f]
       /\ \A f \in DOMAIN last.earlier.patch \ (DOMAIN last.arg \cup {"lastUpdated"}) :
            Get(localStorage[LastKey].obj, f) = last.earlier.patch[f]

\* two concurrent updates resolved, and the earlier changed a field the later
\* patch does not set
C16_Witness ==
  /\ TwoUpdates
  /\ \E f \in DOMAIN last.earlier.patch \ DOMAIN last.arg :
       Get(last.earlier.read.obj, f) # last.earlier.patch[f]

\* C17: every card in the store has lastUpdated >= created.
C17_LastUpdatedAfterCreated ==
  \A k \in DOMAIN localStorage :
    Get(localStorage[k].obj, "created").t = "number"
      => Get(localStorage[k].obj, "lastUpdated").n
           >= Get(localStorage[k].obj, "created").n

\* the keys whose item a step adds, removes or rewrites
Changed ==
  { k \in (DOMAIN localStorage) \cup (DOMAIN localStorage') :
      \/ k \notin DOMAIN localStorage
      \/ k \notin DOMAIN localStorage'
      \/ localStorage[k] # localStorage'[k] }

\* C18: a callback reads and writes only keys of the namespace in force when
\* its operation was called, and writes nothing while the instance is not ready.
C18_CallbackKeepsNamespace ==
  [][/\ (localStorage' # localStorage /\ last'.op \in RecordOps)
          => /\ ready
             /\ \A k \in Changed : StartsWith(k, Head(timers).prefix \o <<"--">>)
     /\ (/\ opCount' = opCount
         /\ Len(timers) > 0
         /\ Head(timers).op # "getCardsByStatusCodes")
          => ToStr(dataItemPrefix) = Head(timers).prefix]_vars

\* C19: a successful addCard adds exactly one new key, a successful
\* updateCardById rewrites only its key, a successful deleteCardById removes
\* only its key, and every other key keeps its item; the read operations
\* leave the store as it is.
C19_OnlyOwnKey ==
  /\ (last.op = "addCard" /\ last.outcome = "resolved")
       => /\ LastKey \notin DOMAIN last.before
          /\ DOMAIN localStorage = DOMAIN last.before \cup {LastKey}
          /\ \A k \in DOMAIN last.before : localStorage[k] = last.before[k]
  /\ (last.op = "updateCardById" /\ last.outcome = "resolved")
       => /\ DOMAIN localStorage = DOMAIN last.before
          /\ \A k \in DOMAIN last.before \ {LastKey} : localStorage[k] = last.before[k]
  /\ (last.op = "deleteCardById" /\ last.outcome = "resolved")
       => /\ DOMAIN localStorage = DOMAIN last.before \ {LastKey}
          /\ \A k \in DOMAIN localStorage : localStorage[k] = last.before[k]
  /\ last.op \in {"getCardById", "getCards", "getCardsByStatusCodes"}
       => localStorage = last.before

\* deleteCardById resolved on a store that held another card of the same
\* namespace and a card of another namespace
C19_Witness ==
  /\ last.op = "deleteCardById"
  /\ last.outcome = "resolved"
  /\ \E k1, k2 \in DOMAIN localStorage :
       /\ StartsWith(k1, last.prefix \o <<"--">>)
       /\ ~StartsWith(k2, last.prefix)

====
